---- MODULE Spec2Model ----
(***************************************************************************)
(* A model of the ray tracer: the f64 vector arithmetic of vec3.rs, the    *)
(* sphere intersection of sphere.rs, the hit record and the scene scan of  *)
(* hittable.rs, and the path integrator, the row-parallel render loop, the *)
(* image assembly and the pixel edits of main.rs.                          *)
(*                                                                         *)
(* An f64 is modelled by its value (a + b*sqrt(d))/q, with integer a, b,   *)
(* d >= 0 and q >= 0, kept exactly; q = 0 gives the IEEE specials: a = 1   *)
(* is +inf, a = -1 is -inf and a = 0 is NaN.  The flag nz is the sign of a *)
(* zero.  The flag e says that the f64 of the program holds exactly that   *)
(* value: it is false once a result had to be rounded; the specials are    *)
(* always exact.  A comparison or a truncation whose operands are equal in *)
(* value and not both exact is decided by the rounding, and the model      *)
(* takes either outcome; operations that decide are therefore sets of      *)
(* outcomes.  Values that differ are taken to differ by more than the      *)
(* rounding error.  A zero that is not exact stands for an f64 that is     *)
(* zero or tiny, of either sign: its reciprocal, its square root and its   *)
(* product with an infinity depend on which, and have no value in the      *)
(* model, so that a check that runs to its end has met none of them.       *)
(***************************************************************************)
EXTENDS Integers, Sequences, FiniteSets, TLC

VARIABLES
    pc,          \* where the modelled code stands; "idle", and the labels below
    \* Sphere::hit, HittableList::hit, HitRecord::new (sphere.rs, hittable.rs)
    op,          \* the operation last applied: "init", "sphere", "list", "record"
    ray,         \* the ray r
    t_min,       \* the caller's interval
    t_max,
    objects,     \* HittableList.objects: a sequence of spheres
    target,      \* index in objects of the sphere queried alone
    rec_in,      \* the arguments of HitRecord::new: [p, outward_normal, t]
    result,      \* the Option<HitRecord> the operation returned
    \* ray_color (main.rs); its world is objects, its ray r is ray;
    \* pc is "call" (ray_color entered), "return" or "done"
    max_depth,   \* the depth of the outermost call
    depth,       \* the depth of the current call
    stack,       \* the attenuations of the calls waiting for their callee
    color,       \* the value the last call returned
    shade,       \* the f64 of color bit for bit, where the model knows them
    queries,     \* the number of world.hit calls made
    scatters,    \* the number of Material::scatter calls made
    path,        \* the attenuations of the successful scatters, in order
    terminal,    \* how the innermost call ended: "depth", "absorbed", "miss"
    \* the closure that renders scanline j (main.rs lines 132 to 147);
    \* pc is "pixel" (the loop over i), "returned"
    image_width,
    image_height,
    samples_per_pixel,
    row_j,       \* the scanline j
    col_i,       \* the column i
    sample_s,    \* the sample _s
    pixel_color, \* the colour accumulated for pixel i
    row_pixels,  \* the pixels pushed so far
    cam_u,       \* the coordinates u, v last passed to Camera::get_ray
    cam_v,
    \* the parallel map, its collect, the assembly, the input image and the
    \* pixel edits (main.rs lines 132 to 215); pc is "render", "assemble",
    \* "edits" or "done"
    row_state,   \* per scanline: "todo", "running" or "done"
    finished,    \* the scanlines in the order their closures returned
    rows,        \* the collected Vec, indexed by scanline
    row_idx,     \* the index of the assembly loop
    imgbuf,      \* per image row y and column x, the pixel put there
    written,     \* per image row y and column x, the number of put_pixel calls
    cli,         \* the arguments --input, --blend and --set-pixel
    edits,       \* the number of --set-pixel arguments gone through
    \* Color::to_rgb8 (vec3.rs) applied to pixel_color and to a second colour
    other_color,
    rgb8,        \* to_rgb8 of pixel_color
    other_rgb8   \* to_rgb8 of other_color

hitVars == <<op, ray, t_min, t_max, objects, target, rec_in, result>>
traceVars == <<max_depth, depth, stack, color, shade, queries, scatters,
               path, terminal>>
rowVars == <<image_width, image_height, samples_per_pixel, row_j, col_i,
             sample_s, pixel_color, row_pixels, cam_u, cam_v>>
imageVars == <<row_state, finished, rows, row_idx, imgbuf, written, cli,
               edits>>
rgbVars == <<other_color, rgb8, other_rgb8>>
vars == <<pc, hitVars, traceVars, rowVars, imageVars, rgbVars>>

----------------------------------------------------------------------------
(* f64 arithmetic.  The operations are functions, so that an argument is   *)
(* evaluated once, where the operation is applied.                         *)

\* evaluates v once and applies Op to its value
Bind(v, Op(_)) == CHOOSE y \in {Op(x) : x \in {v}} : TRUE

Sgn[x \in Int] == IF x > 0 THEN 1 ELSE IF x < 0 THEN -1 ELSE 0

Abs[x \in Int] == IF x < 0 THEN -x ELSE x

Gcd[x \in Nat, y \in Nat] == IF y = 0 THEN x ELSE Gcd[y, x % y]

\* s * c^2 * A for the term c*sqrt(A): its square, with its sign
SSq[c \in Int, A \in Int] == Sgn[c] * c * c * A

\* the sign of u + c*sqrt(A)
SurdSign[u \in Int, c \in Int, A \in Int] ==
    IF c = 0 \/ A = 0 THEN Sgn[u]
    ELSE IF u = 0 THEN Sgn[c]
    ELSE IF Sgn[u] = Sgn[c] THEN Sgn[u]
    ELSE Sgn[SSq[u, 1] + SSq[c, A]]

\* the sign of u + c1*sqrt(A) + c2*sqrt(B), for u, c1, c2 without common factor
Sign3Reduced[u \in Int, c1 \in Int, A \in Int, c2 \in Int, B \in Int] ==
    LET sx == Sgn[SSq[c1, A] + SSq[c2, B]]
        su == Sgn[u]
    IN  IF sx = 0 THEN su
        ELSE IF su = 0 \/ su = sx THEN sx
        ELSE sx * SurdSign[c1 * c1 * A + c2 * c2 * B - u * u,
                           2 * c1 * c2, A * B]

\* the sign of u + c1*sqrt(A) + c2*sqrt(B)
Sign3[u \in Int, c1 \in Int, A \in Int, c2 \in Int, B \in Int] ==
    LET g == Gcd[Gcd[Abs[u], Abs[c1]], Abs[c2]]
    IN  IF g = 0 THEN 0
        ELSE Sign3Reduced[u \div g, c1 \div g, A, c2 \div g, B]

\* the largest k whose square divides d, searched from n upwards
SquarePart[d \in Int, n \in Nat] ==
    IF n * n > d THEN 1
    ELSE IF d % (n * n) = 0 THEN n * SquarePart[d \div (n * n), n]
    ELSE SquarePart[d, n + 1]

\* (a + b*sqrt(d))/q with the square part k of d moved out of the root
Canonical[a \in Int, b \in Int, d \in Int, q \in Int, k \in Int] ==
    LET d1 == d \div (k * k)
        b1 == IF b = 0 \/ d1 <= 1 THEN 0 ELSE b * k
        a1 == IF b # 0 /\ d1 = 1 THEN a + b * k ELSE a
        g == Gcd[Gcd[Abs[a1], Abs[b1]], Abs[q]]
    IN  [a |-> (Sgn[q] * a1) \div g, b |-> (Sgn[q] * b1) \div g,
         d |-> IF b1 = 0 THEN 0 ELSE d1, q |-> Abs[q] \div g,
         e |-> TRUE, nz |-> FALSE]

\* +inf (sign 1), -inf (sign -1) and NaN (sign 0)
Special(sign) ==
    [a |-> sign, b |-> 0, d |-> 0, q |-> 0, e |-> TRUE, nz |-> FALSE]

\* +0.0 and, with nz, -0.0
Zero(nz, e) == [a |-> 0, b |-> 0, d |-> 0, q |-> 1, e |-> e, nz |-> nz]

\* the value (a + b*sqrt(d))/q in canonical form: d square-free and not 1,
\* q > 0, the fraction in lowest terms
Mk[a \in Int, b \in Int, d \in Int, q \in Int] ==
    IF q = 0
    THEN Special(SurdSign[a, b, d])
    ELSE Canonical[a, b, d, q, IF b = 0 \/ d = 0 THEN 1 ELSE SquarePart[d, 2]]

Num == [a : Int, b : Int, d : Int, q : Int, e : BOOLEAN, nz : BOOLEAN]

IsPow2[n \in Nat] == n = 1 \/ (n > 1 /\ n % 2 = 0 /\ IsPow2[n \div 2])

\* a value an f64 holds exactly: a fraction of integers whose denominator
\* is a power of two (the numerators of the model are far below 2^53)
Dyadic(x) == x.b = 0 /\ x.q > 0 /\ IsPow2[x.q]

\* the result x of an operation whose operands were exact or not (e): the f64
\* holds x itself when they were and x needs no rounding
Rounded(x, e) == [x EXCEPT !.e = x.q = 0 \/ (e /\ Dyadic(x))]

\* the literal p/q
Rat(p, q) == Rounded(Mk[p, 0, 0, q], TRUE)

F(i) == Mk[i, 0, 0, 1]

INFINITY == Special(1)

NaN == Special(0)

IsNaN(x) == x.q = 0 /\ x.a = 0

IsZero(x) == x.q # 0 /\ x.a = 0 /\ x.b = 0

\* a zero that was rounded: the f64 is zero or tiny, its sign is not known
IsTiny(x) == IsZero(x) /\ ~x.e

\* the result of an operation the model has no value for
Undetermined == CHOOSE r \in {} : TRUE

\* two numbers are combined in one field Q(sqrt d)
Radicand[x \in Num, y \in Num] ==
    IF x.b = 0 THEN y.d
    ELSE IF y.b = 0 \/ y.d = x.d THEN x.d
    ELSE CHOOSE d \in {} : TRUE

NumSign[x \in Num] == SurdSign[x.a, x.b, x.d]

\* the sign bit of a number that is not NaN
SignBit(x) == x.nz \/ NumSign[x] < 0

NumNeg[x \in Num] ==
    IF IsNaN(x) THEN x
    ELSE IF IsZero(x) THEN [x EXCEPT !.nz = ~x.nz]
    ELSE [Mk[-x.a, -x.b, x.d, x.q] EXCEPT !.e = x.e]

NumAdd[x \in Num, y \in Num] ==
    IF IsNaN(x) \/ IsNaN(y) THEN NaN
    ELSE IF x.q = 0 /\ y.q = 0
    THEN Special(IF x.a = y.a THEN x.a ELSE 0)
    ELSE IF x.q = 0 THEN x
    ELSE IF y.q = 0 THEN y
    ELSE IF IsZero(x) /\ IsZero(y) THEN Zero(x.nz /\ y.nz, x.e /\ y.e)
    ELSE IF x.q = y.q
    THEN Rounded(Mk[x.a + y.a, x.b + y.b, Radicand[x, y], x.q], x.e /\ y.e)
    ELSE Rounded(Mk[x.a * y.q + y.a * x.q, x.b * y.q + y.b * x.q,
                    Radicand[x, y], x.q * y.q], x.e /\ y.e)

NumSub[x \in Num, y \in Num] == NumAdd[x, NumNeg[y]]

\* a product with an exact zero is an exact zero, and NaN when the other
\* factor is an infinity; a rounded zero times an infinity is an infinity or
\* NaN, which the model cannot tell
NumMul[x \in Num, y \in Num] ==
    IF IsNaN(x) \/ IsNaN(y) THEN NaN
    ELSE IF x.q = 0 \/ y.q = 0
    THEN IF IsTiny(x) \/ IsTiny(y) THEN Undetermined
         ELSE Special(IF IsZero(x) \/ IsZero(y) THEN 0
                      ELSE IF SignBit(x) = SignBit(y) THEN 1 ELSE -1)
    ELSE IF IsZero(x) \/ IsZero(y)
    THEN Zero(SignBit(x) # SignBit(y),
              \/ IsZero(x) /\ x.e /\ (y.e \/ ~IsZero(y))
              \/ IsZero(y) /\ y.e /\ (x.e \/ ~IsZero(x)))
    ELSE Rounded(Mk[x.a * y.a + x.b * y.b * Radicand[x, y],
                    x.a * y.b + x.b * y.a, Radicand[x, y], x.q * y.q],
                 x.e /\ y.e)

\* the value of 1/x; that of a rounded zero is an infinity or a large
\* number of either sign, which the model cannot tell
NumInv[x \in Num] ==
    IF IsNaN(x) THEN x
    ELSE IF x.q = 0 THEN Zero(x.a < 0, TRUE)
    ELSE IF IsTiny(x) THEN Undetermined
    ELSE IF IsZero(x) THEN Special(IF x.nz THEN -1 ELSE 1)
    ELSE Rounded(Mk[x.q * x.a, -(x.q * x.b), x.d,
                    x.a * x.a - x.b * x.b * x.d], x.e)

\* x / y: one operation, rounded once.  There is no value for a rounded zero
\* as the divisor, nor for a rounded zero divided by zero
NumDiv[x \in Num, y \in Num] ==
    Rounded(NumMul[x, NumInv[y]], x.e /\ y.e)

\* f64::sqrt.  The root of a positive number that is not rational is outside
\* the numbers of the model: there is no value for it.  Nor is there one for
\* the root of a rounded zero, which is NaN, zero or small
NumSqrt[x \in Num] ==
    IF IsNaN(x) THEN x
    ELSE IF IsTiny(x) THEN Undetermined
    ELSE IF IsZero(x) THEN x
    ELSE IF NumSign[x] < 0 THEN NaN
    ELSE IF x.q = 0 THEN x
    ELSE IF x.b = 0 THEN Rounded(Mk[0, 1, x.a * x.q, x.q], x.e)
    ELSE Undetermined

\* x < y on the values; false when either is NaN
NumLess[x \in Num, y \in Num] ==
    IF IsNaN(x) \/ IsNaN(y) THEN FALSE
    ELSE IF x.q = 0 /\ y.q = 0 THEN x.a < y.a
    ELSE Sign3[y.a * x.q - x.a * y.q, y.b * x.q, y.d, -(x.b * y.q), x.d] > 0

NumEq[x \in Num, y \in Num] ==
    ~IsNaN(x) /\ ~IsNaN(y) /\ ~NumLess[x, y] /\ ~NumLess[y, x]

NumLeq[x \in Num, y \in Num] == NumLess[x, y] \/ NumEq[x, y]

\* the outcomes of the f64 test x < y: that of the values, or either one
\* when the values are equal and one of them was rounded
Lt[x \in Num, y \in Num] ==
    IF NumEq[x, y] /\ ~(x.e /\ y.e) THEN BOOLEAN ELSE {NumLess[x, y]}

\* the outcomes of `if cond { A } else { B }`, A and B sets of outcomes
Branch(cond, A, B) ==
    Bind(cond, LAMBDA c : (IF TRUE \in c THEN A ELSE {})
                            \cup (IF FALSE \in c THEN B ELSE {}))

----------------------------------------------------------------------------
(* f64 bit for bit.  Where a claim is about the f64 a computation gives and *)
(* not only about its value, the f64 is modelled by its sign, its 53-bit    *)
(* significand m and its exponent x: it is m * 2^x, negated when neg.  m is *)
(* a natural number in limbs of 13 bits, the lowest first, and <<>> is 0.   *)
(* An operation computes its result in full and rounds it once, to the      *)
(* nearest f64, to the even one of two equally near.  The exponents of the  *)
(* model are far from the ends of the f64 range: no overflow, no subnormal. *)

F64 == [neg : BOOLEAN, m : Seq(Nat), x : Int]

\* s without its leading zero limbs
BigTrim[s \in Seq(Nat)] ==
    IF s # <<>> /\ s[Len(s)] = 0 THEN BigTrim[SubSeq(s, 1, Len(s) - 1)] ELSE s

\* the natural number n in limbs
BigOf[n \in Nat] ==
    IF n = 0 THEN <<>> ELSE <<n % 2 ^ 13>> \o BigOf[n \div 2 ^ 13]

\* limb i of s, counted from 1; 0 beyond its length
BigLimb(s, i) == IF i >= 1 /\ i <= Len(s) THEN s[i] ELSE 0

\* the number of bits of s
BigLen[s \in Seq(Nat)] ==
    LET bits[n \in Nat] == IF n = 0 THEN 0 ELSE 1 + bits[n \div 2]
    IN  IF s = <<>> THEN 0 ELSE 13 * (Len(s) - 1) + bits[s[Len(s)]]

\* s * 2^n
BigShl[s \in Seq(Nat), n \in Nat] ==
    BigTrim[[k \in 1..(Len(s) + n \div 13 + 1) |->
               (BigLimb(s, k - n \div 13) % 2 ^ (13 - (n % 13))) * 2 ^ (n % 13)
               + BigLimb(s, k - n \div 13 - 1) \div 2 ^ (13 - (n % 13))]]

\* s / 2^n, rounded down
BigShr[s \in Seq(Nat), n \in Nat] ==
    IF n \div 13 >= Len(s) THEN <<>>
    ELSE BigTrim[[k \in 1..(Len(s) - n \div 13) |->
                    BigLimb(s, k + n \div 13) \div 2 ^ (n % 13)
                    + (BigLimb(s, k + n \div 13 + 1) % 2 ^ (n % 13))
                      * 2 ^ (13 - (n % 13))]]

\* a + b: the limbs from limb i on, with the carry into limb i
BigAdd[a, b \in Seq(Nat)] ==
    LET from[i \in Nat, carry \in Nat] ==
            IF i > Len(a) /\ i > Len(b)
            THEN IF carry = 0 THEN <<>> ELSE <<carry>>
            ELSE <<(BigLimb(a, i) + BigLimb(b, i) + carry) % 2 ^ 13>>
                 \o from[i + 1,
                         (BigLimb(a, i) + BigLimb(b, i) + carry) \div 2 ^ 13]
    IN  from[1, 0]

\* a * b: limb k is the sum of the a[i] * b[k + 1 - i] and of the carry
BigMul[a, b \in Seq(Nat)] ==
    LET column[k \in Nat, i \in Nat] ==
            IF i > Len(a) \/ i > k THEN 0
            ELSE a[i] * BigLimb(b, k + 1 - i) + column[k, i + 1]
        from[k \in Nat, carry \in Nat] ==
            IF k > Len(a) + Len(b) THEN <<>>
            ELSE <<(column[k, 1] + carry) % 2 ^ 13>>
                 \o from[k + 1, (column[k, 1] + carry) \div 2 ^ 13]
    IN  BigTrim[from[1, 0]]

\* the f64 nearest to big * 2^x, ties to the even significand
F64Round[neg \in BOOLEAN, big \in Seq(Nat), x \in Int] ==
    LET n == BigLen[big]
        s == n - 53
        bit(i) == (BigLimb(big, i \div 13 + 1) \div 2 ^ (i % 13)) % 2
        kept == BigShr[big, s]
        up == /\ bit(s - 1) = 1
              /\ bit(s) = 1 \/ BigShl[BigShr[big, s - 1], s - 1] # big
        m == IF up THEN BigAdd[kept, <<1>>] ELSE kept
    IN  IF n = 0 THEN [neg |-> neg, m |-> <<>>, x |-> 0]
        ELSE IF n <= 53
        THEN [neg |-> neg, m |-> BigShl[big, 53 - n], x |-> x - (53 - n)]
        ELSE IF BigLen[m] > 53
        THEN [neg |-> neg, m |-> BigShr[m, 1], x |-> x + s + 1]
        ELSE [neg |-> neg, m |-> m, x |-> x + s]

\* the f64 nearest to p / q, q > 0: the quotient of p * 2^k by q, to 55 bits
\* or more, and one more bit that says whether the division left a remainder
F64Of[p \in Int, q \in Nat] ==
    LET k == 56 + BigLen[BigOf[q]] - BigLen[BigOf[Abs[p]]]
        from[a \in Seq(Nat), rem \in Nat, quot \in Seq(Nat)] ==
            IF a = <<>>
            THEN BigAdd[BigShl[BigTrim[quot], 1],
                        IF rem = 0 THEN <<>> ELSE <<1>>]
            ELSE from[SubSeq(a, 1, Len(a) - 1),
                      (rem * 2 ^ 13 + a[Len(a)]) % q,
                      <<(rem * 2 ^ 13 + a[Len(a)]) \div q>> \o quot]
    IN  F64Round[p < 0, from[BigShl[BigOf[Abs[p]], k], 0, <<>>], -(k + 1)]

\* the f64 nearest to the value of the rational number x: the f64 of a
\* literal, and of a value an f64 holds exactly
Nearest[x \in Num] ==
    IF x.q = 0 \/ x.b # 0 THEN Undetermined
    ELSE IF IsZero(x) THEN [neg |-> x.nz, m |-> <<>>, x |-> 0]
    ELSE F64Of[x.a, x.q]

\* x * y
F64Mul[u, v \in F64] ==
    F64Round[u.neg # v.neg, BigMul[u.m, v.m], u.x + v.x]

\* x + y: the significands on the smaller exponent, added, or the smaller
\* one subtracted from the larger
F64Add[u, v \in F64] ==
    LET lo == IF u.x < v.x THEN u.x ELSE v.x
        a == BigShl[u.m, u.x - lo]
        b == BigShl[v.m, v.x - lo]
        less[c, d \in Seq(Nat)] ==
            IF Len(c) # Len(d) THEN Len(c) < Len(d)
            ELSE LET differ == {i \in 1..Len(c) : c[i] # d[i]}
                     top == CHOOSE i \in differ : \A j \in differ : j <= i
                 IN  c[top] < d[top]
        minus[c, d \in Seq(Nat), i \in Nat, borrow \in {0, 1}] ==
            IF i > Len(c) THEN <<>>
            ELSE <<(BigLimb(c, i) - BigLimb(d, i) - borrow + 2 ^ 13) % 2 ^ 13>>
                 \o minus[c, d, i + 1,
                          IF BigLimb(c, i) - BigLimb(d, i) - borrow < 0
                          THEN 1 ELSE 0]
    IN  IF u.m = <<>> /\ v.m = <<>>
        THEN [neg |-> u.neg /\ v.neg, m |-> <<>>, x |-> 0]
        ELSE IF u.m = <<>> THEN v
        ELSE IF v.m = <<>> THEN u
        ELSE IF u.neg = v.neg THEN F64Round[u.neg, BigAdd[a, b], lo]
        ELSE IF a = b THEN [neg |-> FALSE, m |-> <<>>, x |-> 0]
        ELSE IF less[a, b] THEN F64Round[v.neg, BigTrim[minus[b, a, 1, 0]], lo]
        ELSE F64Round[u.neg, BigTrim[minus[a, b, 1, 0]], lo]

----------------------------------------------------------------------------
(* vec3.rs *)

Vec3 == Num \X Num \X Num

Vec3_new(x, y, z) == <<x, y, z>>

Vec3_zero == Vec3_new(F(0), F(0), F(0))

Vec3_length_squared[v \in Vec3] ==
    NumAdd[NumAdd[NumMul[v[1], v[1]], NumMul[v[2], v[2]]], NumMul[v[3], v[3]]]

Vec3_length[v \in Vec3] == NumSqrt[Vec3_length_squared[v]]

Vec3_dot[v \in Vec3, other \in Vec3] ==
    NumAdd[NumAdd[NumMul[v[1], other[1]], NumMul[v[2], other[2]]],
           NumMul[v[3], other[3]]]

Vec3_add[v \in Vec3, rhs \in Vec3] ==
    Vec3_new(NumAdd[v[1], rhs[1]], NumAdd[v[2], rhs[2]], NumAdd[v[3], rhs[3]])

Vec3_sub[v \in Vec3, rhs \in Vec3] ==
    Vec3_new(NumSub[v[1], rhs[1]], NumSub[v[2], rhs[2]], NumSub[v[3], rhs[3]])

\* Vec3 * f64 and f64 * Vec3
Vec3_mul_f64[v \in Vec3, rhs \in Num] ==
    Vec3_new(NumMul[v[1], rhs], NumMul[v[2], rhs], NumMul[v[3], rhs])

\* Vec3 * Vec3, component-wise
Vec3_mul[v \in Vec3, rhs \in Vec3] ==
    Vec3_new(NumMul[v[1], rhs[1]], NumMul[v[2], rhs[2]], NumMul[v[3], rhs[3]])

\* Vec3 / f64 multiplies by the reciprocal
Vec3_div[v \in Vec3, rhs \in Num] == Vec3_mul_f64[v, NumDiv[F(1), rhs]]

Vec3_neg[v \in Vec3] == Vec3_new(NumNeg[v[1]], NumNeg[v[2]], NumNeg[v[3]])

Vec3_unit_vector[v \in Vec3] == Vec3_div[v, Vec3_length[v]]

----------------------------------------------------------------------------
(* ray.rs *)

Ray == [origin : Vec3, direction : Vec3]

Ray_new(origin, direction) == [origin |-> origin, direction |-> direction]

Ray_at[r \in Ray, t \in Num] == Vec3_add[r.origin, Vec3_mul_f64[r.direction, t]]

----------------------------------------------------------------------------
(* hittable.rs, sphere.rs *)

None == [some |-> FALSE]

\* the outcomes of r.direction.dot(&outward_normal) < 0.0
FrontFace(r, outward_normal) ==
    Lt[Vec3_dot[r.direction, outward_normal], F(0)]

\* a HitRecord::new that keeps the outward normal whatever front_face is
FacingNormal_NoFlip(front_face, outward_normal) == outward_normal

\* if front_face { outward_normal } else { -outward_normal }
FacingNormal(front_face, outward_normal) ==
    IF front_face THEN outward_normal ELSE Vec3_neg[outward_normal]

\* the records HitRecord::new may build
HitRecord_new(p, outward_normal, t, r, mat) ==
    {[some |-> TRUE, p |-> p,
      normal |-> FacingNormal(front_face, outward_normal), t |-> t,
      front_face |-> front_face, mat |-> mat] :
        front_face \in FrontFace(r, outward_normal)}

Sphere_new(center, radius, mat) ==
    [center |-> center, radius |-> radius, mat |-> mat]

\* a range test that rejects the end points too
RootInRange_Open(root, tmin, tmax) ==
    {above /\ below : above \in Lt[tmin, root], below \in Lt[root, tmax]}

\* the outcomes of the test `root < t_min || root > t_max`, negated
RootInRange(root, tmin, tmax) ==
    {~(below \/ above) : below \in Lt[root, tmin], above \in Lt[tmax, root]}

\* the smaller root, (-half_b - sqrtd) / a
NearRoot(half_b, sqrtd, a) == NumDiv[NumSub[NumNeg[half_b], sqrtd], a]

\* a larger root with the sign of half_b lost
FarRoot_SignLost(half_b, sqrtd, a) == NumDiv[NumAdd[half_b, sqrtd], a]

\* the larger root, (-half_b + sqrtd) / a
FarRoot(half_b, sqrtd, a) == NumDiv[NumAdd[NumNeg[half_b], sqrtd], a]

\* the records Sphere::hit may build for an accepted root
SphereRecord(s, r, root) ==
    Bind(Ray_at[r, root], LAMBDA p :
         Bind(Vec3_div[Vec3_sub[p, s.center], s.radius], LAMBDA outward_normal :
              HitRecord_new(p, outward_normal, root, r, s.mat)))

\* the quadratic of Sphere::hit: [a, half_b, discriminant]
SphereQuadratic(s, r) ==
    Bind(Vec3_sub[r.origin, s.center], LAMBDA oc :
         Bind([a |-> Vec3_length_squared[r.direction],
               half_b |-> Vec3_dot[oc, r.direction],
               c |-> NumSub[Vec3_length_squared[oc],
                            NumMul[s.radius, s.radius]]], LAMBDA k :
              [a |-> k.a, half_b |-> k.half_b,
               discriminant |-> NumSub[NumMul[k.half_b, k.half_b],
                                       NumMul[k.a, k.c]]]))

\* the second root is tried when the first is out of range
SphereSecondRoot(s, r, tmin, tmax, k, sqrtd) ==
    Bind(FarRoot(k.half_b, sqrtd, k.a), LAMBDA root2 :
         Branch(RootInRange(root2, tmin, tmax),
                SphereRecord(s, r, root2), {None}))

\* the values Sphere::hit may return
Sphere_hit(s, r, tmin, tmax) ==
    Bind(SphereQuadratic(s, r), LAMBDA k :
         Branch(Lt[k.discriminant, F(0)], {None},
                Bind(NumSqrt[k.discriminant], LAMBDA sqrtd :
                     Bind(NearRoot(k.half_b, sqrtd, k.a), LAMBDA root1 :
                          Branch(RootInRange(root1, tmin, tmax),
                                 SphereRecord(s, r, root1),
                                 SphereSecondRoot(s, r, tmin, tmax, k,
                                                  sqrtd))))))

\* a scan that never tightens its upper bound
ClosestAfterHit_Stale(closest_so_far, rec) == closest_so_far

\* closest_so_far = rec.t
ClosestAfterHit(closest_so_far, rec) == rec.t

\* one iteration of the scan: acc is [closest_so_far, hit_anything]; the
\* result is the set of values acc may have after it
ScanObject(acc, obj, r, tmin) ==
    Bind(acc, LAMBDA was :
         {IF hit.some
          THEN [closest_so_far |-> ClosestAfterHit(was.closest_so_far, hit),
                hit_anything |-> hit]
          ELSE was : hit \in Sphere_hit(obj, r, tmin, was.closest_so_far)})

RECURSIVE ScanFrom(_, _, _, _, _)
ScanFrom(objs, i, accs, r, tmin) ==
    IF i > Len(objs) THEN accs
    ELSE Bind(UNION {ScanObject(acc, objs[i], r, tmin) : acc \in accs},
              LAMBDA next : ScanFrom(objs, i + 1, next, r, tmin))

\* the values HittableList::hit may return
HittableList_hit(objs, r, tmin, tmax) ==
    {acc.hit_anything :
       acc \in ScanFrom(objs, 1, {[closest_so_far |-> tmax,
                                   hit_anything |-> None]}, r, tmin)}

----------------------------------------------------------------------------
(* the inputs *)

MaxCoord == 1

MaxObjects == 2

Coords == -MaxCoord..MaxCoord

V3(x, y, z) == Vec3_new(F(x), F(y), F(z))

\* the directions of a grid, the zero vector among them
Directions == {V3(x, y, z) : x \in Coords, y \in Coords, z \in Coords}

\* rays that touch the sphere of radius 1 around (0, 0, -1) in one point:
\* two at t = 4/3, which no f64 holds, and one at t = 2
TangentRays ==
    {Ray_new(V3(-3, -2, -3), V3(2, 1, 2)),
     Ray_new(V3(-3, -2, 1), V3(2, 2, -1)),
     Ray_new(V3(1, 0, -3), V3(0, 0, 1))}

Rays ==
    {Ray_new(V3(x, 0, z), d) : x \in 0..MaxCoord, z \in Coords,
                               d \in Directions} \cup TangentRays

\* rays towards, past and away from the spheres, for the scene scan
AxisRays == {Ray_new(o, V3(x, y, z)) :
               o \in {V3(0, 0, 1), V3(0, 0, -1)},
               x \in {0, 1}, y \in {0}, z \in {-2, -1, 1}}

\* the sphere of main.rs line 114, and three more around it
CenterSphere == Sphere_new(V3(0, 0, -1), Rat(1, 2), "mat_center")

OuterShell == Sphere_new(V3(0, 0, -1), F(1), "mat_left")

\* a negative radius, as in main.rs line 116
InnerShell == Sphere_new(V3(0, 0, -1), F(-1), "mat_left")

RightSphere == Sphere_new(V3(1, 0, 0), F(1), "mat_right")

Spheres == {CenterSphere, OuterShell, InnerShell, RightSphere}

TMins == {F(-2), F(0), Rat(1, 1000), F(1)}

TMaxs == {F(1), F(2), INFINITY}

RECURSIVE SeqsUpTo(_, _)
SeqsUpTo(S, n) ==
    IF n = 0 THEN {<<>>}
    ELSE LET shorter == SeqsUpTo(S, n - 1)
         IN  shorter \cup {Append(q, x) : q \in shorter, x \in S}

NoRecIn == [p |-> Vec3_zero, outward_normal |-> Vec3_zero, t |-> F(0)]

HitIdle ==
    /\ op = "idle"
    /\ ray = Ray_new(Vec3_zero, V3(0, 0, -1))
    /\ t_min = F(0)
    /\ t_max = F(0)
    /\ objects = <<>>
    /\ target = 0
    /\ rec_in = NoRecIn
    /\ result = None

TraceIdle ==
    /\ max_depth = 0
    /\ depth = 0
    /\ stack = <<>>
    /\ color = Vec3_zero
    /\ shade = [known |-> FALSE, c |-> <<>>]
    /\ queries = 0
    /\ scatters = 0
    /\ path = <<>>
    /\ terminal = "none"

RowIdle ==
    /\ image_width = 0
    /\ image_height = 0
    /\ samples_per_pixel = 0
    /\ row_j = 0
    /\ col_i = 0
    /\ sample_s = 0
    /\ pixel_color = Vec3_zero
    /\ row_pixels = <<>>
    /\ cam_u = F(0)
    /\ cam_v = F(0)

ImageIdle ==
    /\ row_state = <<>>
    /\ finished = <<>>
    /\ rows = <<>>
    /\ row_idx = 0
    /\ imgbuf = <<>>
    /\ written = <<>>
    /\ cli = [input |-> FALSE, blend |-> FALSE, set_pixel |-> <<>>]
    /\ edits = 0

RgbIdle ==
    /\ other_color = Vec3_zero
    /\ rgb8 = <<0, 0, 0>>
    /\ other_rgb8 = <<0, 0, 0>>

----------------------------------------------------------------------------
(* Sphere::hit on one sphere *)

InitSphere ==
    /\ op = "init"
    /\ ray \in Rays
    /\ t_min \in TMins
    /\ t_max \in TMaxs
    /\ objects \in {<<s>> : s \in Spheres}
    /\ target = 1
    /\ rec_in = NoRecIn
    /\ result = None
    /\ pc = "idle"
    /\ TraceIdle /\ RowIdle /\ ImageIdle /\ RgbIdle

SphereHit ==
    /\ op = "init"
    /\ op' = "sphere"
    /\ result' \in Sphere_hit(objects[target], ray, t_min, t_max)
    /\ UNCHANGED <<pc, ray, t_min, t_max, objects, target, rec_in, traceVars,
                   rowVars, imageVars, rgbVars>>

SpecSphere == InitSphere /\ [][SphereHit]_vars

(* HittableList::hit on a scene *)

InitList ==
    /\ op = "init"
    /\ ray \in AxisRays \cup TangentRays
    /\ t_min \in {F(0), Rat(1, 1000)}
    /\ t_max \in {F(2), INFINITY}
    /\ objects \in SeqsUpTo(Spheres, MaxObjects)
    /\ target = 0
    /\ rec_in = NoRecIn
    /\ result = None
    /\ pc = "idle"
    /\ TraceIdle /\ RowIdle /\ ImageIdle /\ RgbIdle

ListHit ==
    /\ op = "init"
    /\ op' = "list"
    /\ result' \in HittableList_hit(objects, ray, t_min, t_max)
    /\ UNCHANGED <<pc, ray, t_min, t_max, objects, target, rec_in, traceVars,
                   rowVars, imageVars, rgbVars>>

SpecList == InitList /\ [][ListHit]_vars

(* HitRecord::new *)

InitRecord ==
    /\ op = "init"
    /\ ray \in {Ray_new(V3(0, 0, 0), d) : d \in Directions}
    /\ t_min = F(0)
    /\ t_max = INFINITY
    /\ objects = <<>>
    /\ target = 0
    /\ rec_in = NoRecIn
    /\ result = None
    /\ pc = "idle"
    /\ TraceIdle /\ RowIdle /\ ImageIdle /\ RgbIdle

RecordNew ==
    /\ op = "init"
    /\ \E n \in Directions
                \cup {Vec3_new(Rat(2, 3), Rat(1, 3), Rat(-2, 3)),
                      Vec3_new(Rat(1, 3), Rat(-1, 3), Rat(1, 3)),
                      Vec3_new(Rat(-3, 5), F(0), Rat(4, 5))},
          t \in {F(1), Rat(1, 2)} :
         /\ rec_in' = [p |-> Ray_at[ray, t], outward_normal |-> n, t |-> t]
         /\ result' \in HitRecord_new(rec_in'.p, rec_in'.outward_normal, t,
                                      ray, "mat")
    /\ op' = "record"
    /\ UNCHANGED <<pc, ray, t_min, t_max, objects, target, traceVars, rowVars,
                   imageVars, rgbVars>>

SpecRecord == InitRecord /\ [][RecordNew]_vars

----------------------------------------------------------------------------
(* material.rs: the scatter contract *)

Color_new(x, y, z) == Vec3_new(x, y, z)

\* the materials of main.rs lines 108 to 111
Materials ==
    [mat_center |-> [kind |-> "Lambertian",
                     albedo |-> Color_new(Rat(1, 10), Rat(2, 10), Rat(5, 10))],
     mat_left |-> [kind |-> "Dielectric",
                   albedo |-> Color_new(F(1), F(1), F(1))],
     mat_right |-> [kind |-> "Metal",
                    albedo |-> Color_new(Rat(8, 10), Rat(6, 10), Rat(2, 10))]]

\* the outgoing rays a scatter may produce: the random direction and the hit
\* point it starts from are drawn from this set
ScatterRays ==
    {Ray_new(V3(0, 0, -1), V3(0, 0, 1)),
     Ray_new(V3(0, 0, -1), V3(1, 0, 1)),
     Ray_new(V3(0, 0, 1), V3(0, 0, -1)),
     Ray_new(V3(0, 0, 1), V3(0, 1, -1)),
     Ray_new(V3(0, 0, 1), V3(0, 1, 0))}

\* what Material::scatter may return when the outgoing ray drawn is
\* scattered: a Lambertian and a Dielectric always scatter, a Metal absorbs
\* the ray unless it leaves on the side of the normal
Material_scatter(mat, r_in, rec, scattered) ==
    Bind([some |-> TRUE, atten |-> Materials[mat].albedo,
          scattered |-> scattered], LAMBDA out :
         IF Materials[mat].kind = "Metal"
         THEN Branch(Lt[F(0), Vec3_dot[scattered.direction, rec.normal]],
                     {out}, {None})
         ELSE {out})

----------------------------------------------------------------------------
(* main.rs: ray_color *)

MaxDepth == 3

\* if depth == 0
DepthExhausted(d) == d = 0

\* a recursive call that passes its own depth on
NextDepth_Same(d) == d

\* the depth of the recursive call
NextDepth(d) == d - 1

\* a return that drops the attenuation
Attenuate_Dropped(atten, c) == c

\* atten * ray_color(&scattered, world, depth - 1)
Attenuate(atten, c) == Vec3_mul[atten, c]

\* every component is a number the f64 holds exactly
ExactVec(v) == \A i \in 1..3 : v[i].q # 0 /\ v[i].e

NearestVec[v \in Vec3] == <<Nearest[v[1]], Nearest[v[2]], Nearest[v[3]]>>

\* Vec3 * Vec3 on the f64, component by component
F64Vec_mul[v, rhs \in Seq(F64)] ==
    <<F64Mul[v[1], rhs[1]], F64Mul[v[2], rhs[2]], F64Mul[v[3], rhs[3]]>>

\* the f64 of atten * c, the attenuation being a colour of literals; the f64
\* of a colour is known, with its three components c, or not
AttenuateBits(atten, sh) ==
    IF sh.known
    THEN [known |-> TRUE, c |-> F64Vec_mul[NearestVec[atten], sh.c]]
    ELSE sh

\* the f64 of the background, (1.0 - t) * white + t * blue with Vec3 + Vec3
\* component by component; known when the unit direction and with it t are
\* exact
BackgroundBits(r) ==
    LET add[v, rhs \in Seq(F64)] ==
            <<F64Add[v[1], rhs[1]], F64Add[v[2], rhs[2]],
              F64Add[v[3], rhs[3]]>>
        blend[t, rest \in Num] ==
            add[F64Vec_mul[NearestVec[Color_new(F(1), F(1), F(1))],
                           NearestVec[<<rest, rest, rest>>]],
                F64Vec_mul[NearestVec[Color_new(Rat(5, 10), Rat(7, 10), F(1))],
                           NearestVec[<<t, t, t>>]]]
        at[t \in Num] == blend[t, NumSub[F(1), t]]
        bits[unit_direction \in Vec3] ==
            IF ExactVec(unit_direction)
            THEN [known |-> TRUE,
                  c |-> at[NumMul[Rat(1, 2),
                                  NumAdd[unit_direction[2], F(1)]]]]
            ELSE [known |-> FALSE, c |-> <<>>]
    IN  bits[Vec3_unit_vector[r.direction]]

\* a background that blends on the x component of the direction
Background_OnX(r) ==
    LET unit_direction == Vec3_unit_vector[r.direction]
        t == NumMul[Rat(1, 2), NumAdd[unit_direction[1], F(1)]]
    IN  Vec3_add[Vec3_mul_f64[Color_new(F(1), F(1), F(1)), NumSub[F(1), t]],
                 Vec3_mul_f64[Color_new(Rat(5, 10), Rat(7, 10), F(1)), t]]

\* the background model, lines 75 to 77
Background(r) ==
    LET unit_direction == Vec3_unit_vector[r.direction]
        t == NumMul[Rat(1, 2), NumAdd[unit_direction[2], F(1)]]
    IN  Vec3_add[Vec3_mul_f64[Color_new(F(1), F(1), F(1)), NumSub[F(1), t]],
                 Vec3_mul_f64[Color_new(Rat(5, 10), Rat(7, 10), F(1)), t]]

\* the values world.hit(r, 0.001, f64::INFINITY) may return
WorldHit == HittableList_hit(objects, ray, Rat(1, 1000), INFINITY)

Scenes == {<<>>, <<CenterSphere>>, <<OuterShell, InnerShell, RightSphere>>}

\* the rays the renderer passes to ray_color: from origins around the
\* spheres, in the directions of a grid, and the rays that touch a sphere
CameraRays ==
    {r \in {Ray_new(V3(ox, 0, oz), V3(x, y, z)) :
               ox \in 0..1, oz \in -1..1,
               x \in -1..1, y \in -1..1, z \in -1..1} :
       r.direction # V3(0, 0, 0)} \cup TangentRays

InitTrace ==
    /\ op = "idle"
    /\ ray \in CameraRays
    /\ t_min = F(0)
    /\ t_max = F(0)
    /\ objects \in Scenes
    /\ target = 0
    /\ rec_in = NoRecIn
    /\ result = None
    /\ pc = "call"
    /\ max_depth \in 0..MaxDepth
    /\ depth = max_depth
    /\ stack = <<>>
    /\ color = Vec3_zero
    /\ shade = [known |-> FALSE, c |-> <<>>]
    /\ queries = 0
    /\ scatters = 0
    /\ path = <<>>
    /\ terminal = "none"
    /\ RowIdle /\ ImageIdle /\ RgbIdle

\* depth == 0: return black
ReturnBlackAtDepth0 ==
    /\ pc = "call"
    /\ DepthExhausted(depth)
    /\ color' = Vec3_zero
    /\ shade' = [known |-> TRUE, c |-> NearestVec[Vec3_zero]]
    /\ terminal' = "depth"
    /\ pc' = "return"
    /\ UNCHANGED <<hitVars, max_depth, depth, stack, queries, scatters, path,
                   rowVars, imageVars, rgbVars>>

\* a hit whose material scatters: recurse on the scattered ray
ScatterAndRecurse ==
    /\ pc = "call"
    /\ ~DepthExhausted(depth)
    /\ \E rec \in WorldHit :
         /\ rec.some
         /\ \E scattered \in ScatterRays :
              \E s \in Material_scatter(rec.mat, ray, rec, scattered) :
                 /\ s.some
                 /\ stack' = Append(stack, s.atten)
                 /\ path' = Append(path, s.atten)
                 /\ ray' = s.scattered
    /\ depth' = NextDepth(depth)
    /\ queries' = queries + 1
    /\ scatters' = scatters + 1
    /\ UNCHANGED <<op, t_min, t_max, objects, target, rec_in, result,
                   pc, max_depth, color, shade, terminal, rowVars, imageVars,
                   rgbVars>>

\* a hit whose material absorbs the ray: return black
AbsorbAndReturnBlack ==
    /\ pc = "call"
    /\ ~DepthExhausted(depth)
    /\ \E rec \in WorldHit :
         /\ rec.some
         /\ \E scattered \in ScatterRays :
              None \in Material_scatter(rec.mat, ray, rec, scattered)
    /\ color' = Vec3_zero
    /\ shade' = [known |-> TRUE, c |-> NearestVec[Vec3_zero]]
    /\ terminal' = "absorbed"
    /\ pc' = "return"
    /\ queries' = queries + 1
    /\ scatters' = scatters + 1
    /\ UNCHANGED <<hitVars, max_depth, depth, stack, path, rowVars, imageVars,
                   rgbVars>>

\* no hit: return the background gradient
MissAndReturnBackground ==
    /\ pc = "call"
    /\ ~DepthExhausted(depth)
    /\ None \in WorldHit
    /\ color' = Background(ray)
    /\ shade' = BackgroundBits(ray)
    /\ terminal' = "miss"
    /\ pc' = "return"
    /\ queries' = queries + 1
    /\ UNCHANGED <<hitVars, max_depth, depth, stack, scatters, path, rowVars,
                   imageVars, rgbVars>>

\* a call returns to its caller, which multiplies by its attenuation
ReturnToCaller ==
    /\ pc = "return"
    /\ stack # <<>>
    /\ color' = Attenuate(stack[Len(stack)], color)
    /\ shade' = AttenuateBits(stack[Len(stack)], shade)
    /\ stack' = SubSeq(stack, 1, Len(stack) - 1)
    /\ UNCHANGED <<hitVars, pc, max_depth, depth, queries, scatters, path,
                   terminal, rowVars, imageVars, rgbVars>>

\* the outermost call returns
ReturnToRenderer ==
    /\ pc = "return"
    /\ stack = <<>>
    /\ pc' = "done"
    /\ UNCHANGED <<hitVars, max_depth, depth, stack, color, shade, queries,
                   scatters, path, terminal, rowVars, imageVars, rgbVars>>

NextTrace ==
    \/ ReturnBlackAtDepth0
    \/ ScatterAndRecurse
    \/ AbsorbAndReturnBlack
    \/ MissAndReturnBackground
    \/ ReturnToCaller
    \/ ReturnToRenderer

SpecTrace == InitTrace /\ [][NextTrace]_vars

\* a call that was entered runs to its end
FairTrace == SpecTrace /\ WF_vars(NextTrace)

----------------------------------------------------------------------------
(* vec3.rs: Color::to_rgb8 *)

\* a clamp that returns the wrong end
clamp_Swapped(x, min, max) ==
    Branch(Lt[x, min], {max}, Branch(Lt[max, x], {min}, {x}))

\* the values fn clamp may return
clamp(x, min, max) ==
    Branch(Lt[x, min], {min}, Branch(Lt[max, x], {max}, {x}))

\* the largest integer of lo..hi that is at most x, where lo <= x
FloorIn[x \in Num, lo \in Int, hi \in Int] ==
    IF lo >= hi THEN lo
    ELSE IF NumLess[x, F((lo + hi + 1) \div 2)]
         THEN FloorIn[x, lo, (lo + hi + 1) \div 2 - 1]
         ELSE FloorIn[x, (lo + hi + 1) \div 2, hi]

\* the bytes x as u8 may give: the cast truncates toward zero, saturates at 0
\* and at 255, and takes NaN to 0; a rounded x whose value is the integer k
\* may lie just below k
AsU8(x) ==
    IF IsNaN(x) \/ NumLess[x, F(1)] THEN {0}
    ELSE Bind(IF ~NumLess[x, F(255)] THEN 255 ELSE FloorIn[x, 1, 254],
              LAMBDA k : IF ~x.e /\ NumEq[x, F(k)] THEN {k - 1, k} ELSE {k})

\* the bytes (256.0 * clamp((c * scale).sqrt(), 0.0, 0.999)) as u8 may give
Channel(c, scale) ==
    Bind(NumSqrt[NumMul[c, scale]], LAMBDA g :
         UNION {AsU8(NumMul[F(256), h]) : h \in clamp(g, F(0), Rat(999, 1000))})

\* the channel values, of vals, whose byte the rounding decides
TieChannels(vals, scale) ==
    {c \in vals : Cardinality(Channel(c, scale)) > 1}

\* the byte of a channel, the lower one when the rounding goes down
ChannelByte(c, scale, down) ==
    Bind(Channel(c, scale), LAMBDA bytes :
         CHOOSE b \in bytes :
           \A other \in bytes : IF down THEN b <= other ELSE b >= other)

\* to_rgb8 of each colour of cs, the colours being exact: the rounding is
\* the same wherever the same channel value is converted
to_rgb8_each(cs, samples) ==
    Bind(NumDiv[F(1), F(samples)], LAMBDA scale :
         {[n \in DOMAIN cs |->
             <<ChannelByte(cs[n][1], scale, cs[n][1] \in down),
               ChannelByte(cs[n][2], scale, cs[n][2] \in down),
               ChannelByte(cs[n][3], scale, cs[n][3] \in down)>>] :
            down \in SUBSET TieChannels({cs[n][k] : n \in DOMAIN cs,
                                                    k \in 1..3}, scale)})

\* the values to_rgb8 may return
to_rgb8(c, samples) == {each[1] : each \in to_rgb8_each(<<c>>, samples)}

MaxChannel == 13
MaxSamples == 3

\* accumulated channel values: a negative one, zero, and quarters
ChannelValues == {Rat(k, 4) : k \in -1..MaxChannel}

\* the second colour is grey
Greys == {<<g, g, g>> : g \in ChannelValues}

InitRgb ==
    /\ pc = "convert"
    /\ HitIdle /\ TraceIdle /\ ImageIdle
    /\ image_width = 0
    /\ image_height = 0
    /\ samples_per_pixel \in 0..MaxSamples
    /\ row_j = 0
    /\ col_i = 0
    /\ sample_s = 0
    /\ pixel_color \in ChannelValues \X ChannelValues \X {Rat(3, 4), F(1)}
    /\ row_pixels = <<>>
    /\ cam_u = F(0)
    /\ cam_v = F(0)
    /\ other_color \in Greys
    /\ rgb8 = <<0, 0, 0>>
    /\ other_rgb8 = <<0, 0, 0>>

\* to_rgb8 applied to both colours with the same sample count
ToRgb8 ==
    /\ pc = "convert"
    /\ \E each \in to_rgb8_each(<<pixel_color, other_color>>,
                                samples_per_pixel) :
         /\ rgb8' = each[1]
         /\ other_rgb8' = each[2]
    /\ pc' = "converted"
    /\ UNCHANGED <<hitVars, traceVars, rowVars, imageVars, other_color>>

SpecRgb == InitRgb /\ [][ToRgb8]_vars

----------------------------------------------------------------------------
(* main.rs: the closure that renders one scanline *)

MaxWidth == 2
MaxHeight == 2

\* values rand::random::<f64>() returns: it draws from [0, 1)
Jitters == {F(0), Rat(1, 2)}

\* values ray_color returns for a sample
SampleColors == {Vec3_zero, Color_new(F(1), Rat(1, 2), F(0))}

\* (k as f64 + rand::random::<f64>()) / (size as f64 - 1.0)
Coordinate(k, jitter, size) ==
    NumDiv[NumAdd[F(k), jitter], NumSub[F(size), F(1)]]

InitRow ==
    /\ pc = "pixel"
    /\ HitIdle /\ TraceIdle /\ ImageIdle /\ RgbIdle
    /\ image_width \in 1..MaxWidth
    /\ image_height \in 1..MaxHeight
    /\ samples_per_pixel \in 1..MaxSamples
    /\ row_j \in 0..(image_height - 1)
    /\ col_i = 0
    /\ sample_s = 0
    /\ pixel_color = Vec3_zero
    /\ row_pixels = <<>>
    /\ cam_u = F(0)
    /\ cam_v = F(0)

\* one pass of the loop over _s: u, v, cam.get_ray(u, v), pixel_color +=
Sample ==
    /\ pc = "pixel"
    /\ col_i < image_width
    /\ sample_s < samples_per_pixel
    /\ \E ju \in Jitters, jv \in Jitters, c \in SampleColors :
         /\ cam_u' = Coordinate(col_i, ju, image_width)
         /\ cam_v' = Coordinate(row_j, jv, image_height)
         /\ pixel_color' = Vec3_add[pixel_color, c]
    /\ sample_s' = sample_s + 1
    /\ UNCHANGED <<pc, hitVars, traceVars, imageVars, rgbVars, image_width,
                   image_height, samples_per_pixel, row_j, col_i, row_pixels>>

\* row_pixels.push(pixel_color.to_rgb8(samples_per_pixel)), and the next i
PushPixel ==
    /\ pc = "pixel"
    /\ col_i < image_width
    /\ sample_s = samples_per_pixel
    /\ \E px \in to_rgb8(pixel_color, samples_per_pixel) :
         row_pixels' = Append(row_pixels, px)
    /\ col_i' = col_i + 1
    /\ sample_s' = 0
    /\ pixel_color' = Vec3_zero
    /\ UNCHANGED <<pc, hitVars, traceVars, imageVars, rgbVars, image_width,
                   image_height, samples_per_pixel, row_j, cam_u, cam_v>>

\* the closure returns row_pixels
ReturnRow ==
    /\ pc = "pixel"
    /\ col_i = image_width
    /\ pc' = "returned"
    /\ UNCHANGED <<hitVars, traceVars, rowVars, imageVars, rgbVars>>

NextRow == Sample \/ PushPixel \/ ReturnRow

SpecRow == InitRow /\ [][NextRow]_vars

----------------------------------------------------------------------------
(* main.rs: the parallel map over the scanlines, collect, the assembly, the *)
(* input image, the pixel edits and the save                               *)

\* the pixels a row closure may return
Pixels == {<<0, 0, 0>>, <<255, 255, 255>>}

\* an assembly that writes row row_idx at image row row_idx
ImageRow_Unflipped(height, idx) == idx

\* let y = image_height - 1 - row_idx as u32
ImageRow(height, idx) == height - 1 - idx

Scanlines == 0..(image_height - 1)

\* --set-pixel arguments, as sequences of characters: one that is applied,
\* one with blanks and a sign, one with a tab and a line feed around its
\* numbers, one with a blank inside a number, one whose red is no u8, one
\* with three parts, one with a negative x, and one that is out of bounds
\* in a small image
EditSpecs ==
    [plain |-> <<"0", ",", "0", ",", "9", ",", "8", ",", "7">>,
     blanks |-> <<" ", "1", ",", "0", " ", ",", "2", "5", "5", ",", "+", "1",
                  ",", "0", "0">>,
     tabs |-> <<"1", ",", "\t", "0", ",", "9", "\n", ",", "8", ",", "7">>,
     inner |-> <<"0", ",", "0", ",", "1", " ", "2", ",", "8", ",", "7">>,
     red256 |-> <<"0", ",", "0", ",", "2", "5", "6", ",", "0", ",", "0">>,
     short |-> <<"0", ",", "0", ",", "9">>,
     negative |-> <<"-", "1", ",", "0", ",", "1", ",", "1", ",", "1">>,
     outside |-> <<"0", ",", "2", ",", "1", ",", "2", ",", "3">>]

\* the lists of --set-pixel arguments tried
EditLists ==
    {<<>>,
     <<EditSpecs.plain, EditSpecs.blanks>>,
     <<EditSpecs.inner, EditSpecs.tabs>>,
     <<EditSpecs.red256, EditSpecs.short, EditSpecs.plain>>,
     <<EditSpecs.negative, EditSpecs.outside, EditSpecs.plain>>}

\* the arguments tried: no input image, one that replaces the render and
\* one that is blended with it
Clis ==
    {[input |-> in, blend |-> bl, set_pixel |-> sp] :
       in \in BOOLEAN, bl \in BOOLEAN, sp \in EditLists}

\* spec.split(','): the parts between the commas
RECURSIVE split(_, _)
split(s, part) ==
    IF s = <<>> THEN <<part>>
    ELSE IF Head(s) = "," THEN <<part>> \o split(Tail(s), <<>>)
    ELSE split(Tail(s), Append(part, Head(s)))

\* the characters char::is_whitespace holds for: the blank, the tab, the
\* line feed, the form feed, the carriage return, and those written here by
\* their code point
WhiteSpace ==
    {" ", "\t", "\n", "\f", "\r", "U+000B", "U+0085", "U+00A0", "U+1680",
     "U+2000", "U+2001", "U+2002", "U+2003", "U+2004", "U+2005", "U+2006",
     "U+2007", "U+2008", "U+2009", "U+200A", "U+2028", "U+2029", "U+202F",
     "U+205F", "U+3000"}

\* s.trim(): without the white space at both ends
RECURSIVE trim(_)
trim(s) ==
    IF s # <<>> /\ Head(s) \in WhiteSpace THEN trim(Tail(s))
    ELSE IF s # <<>> /\ s[Len(s)] \in WhiteSpace
    THEN trim(SubSeq(s, 1, Len(s) - 1))
    ELSE s

Digits == <<"0", "1", "2", "3", "4", "5", "6", "7", "8", "9">>

DigitValue(ch) == (CHOOSE d \in DOMAIN Digits : Digits[d] = ch) - 1

\* the number a sequence of digits stands for; the integers of the check
\* hold those of nine digits, each of them a u32
RECURSIVE DecimalValue(_)
DecimalValue(s) ==
    IF Len(s) > 9 THEN CHOOSE n \in {} : TRUE
    ELSE IF s = <<>> THEN 0
    ELSE 10 * DecimalValue(SubSeq(s, 1, Len(s) - 1)) + DigitValue(s[Len(s)])

\* s.parse::<u32>().ok(): digits, after a + sign or none
parse_u32(s) ==
    LET digits == IF s # <<>> /\ Head(s) = "+" THEN Tail(s) ELSE s
    IN  IF /\ digits # <<>>
           /\ \A n \in DOMAIN digits : \E d \in DOMAIN Digits :
                digits[n] = Digits[d]
        THEN [some |-> TRUE, value |-> DecimalValue(digits)]
        ELSE None

\* s.parse::<u8>().ok(): a number of at most 255
parse_u8(s) ==
    LET parsed == parse_u32(s)
    IN  IF parsed.some /\ parsed.value <= 255 THEN parsed ELSE None

\* imgbuf.put_pixel(x, y, px)
put_pixel(buf, x, y, px) == [buf EXCEPT ![y][x + 1] = px]

\* the count of put_pixel calls, after one more at (x, y)
Counted(count, x, y) == [count EXCEPT ![y][x + 1] = @ + 1]

\* the pixels of an input image after to_rgb8 and resize
InputPixels == {<<101, 200, 255>>, <<0, 0, 0>>}

\* the images resize may return: of the size of imgbuf
ResizedImages ==
    {[y \in Scanlines |-> [x \in 1..image_width |-> px]] : px \in InputPixels}

\* ((base[k] as u16 + src[k] as u16) / 2) as u8, for the three channels
Blended(base, src) ==
    <<(base[1] + src[1]) \div 2, (base[2] + src[2]) \div 2,
      (base[3] + src[3]) \div 2>>

\* the pixel the loops of lines 167 to 188 put at (x, y)
OverlaidPixel(base, src, blend) == IF blend THEN Blended(base, src) ELSE src

InitRender ==
    /\ pc = "render"
    /\ HitIdle /\ TraceIdle /\ RgbIdle
    /\ image_width \in 1..MaxWidth
    /\ image_height \in 1..MaxHeight
    /\ samples_per_pixel = 1
    /\ row_j = 0
    /\ col_i = 0
    /\ sample_s = 0
    /\ pixel_color = Vec3_zero
    /\ row_pixels = <<>>
    /\ cam_u = F(0)
    /\ cam_v = F(0)
    /\ row_state = [k \in Scanlines |-> "todo"]
    /\ finished = <<>>
    /\ rows = [k \in Scanlines |-> <<>>]
    /\ row_idx = 0
    /\ imgbuf = [y \in Scanlines |-> [x \in 1..image_width |-> <<0, 0, 0>>]]
    /\ written = [y \in Scanlines |-> [x \in 1..image_width |-> 0]]
    /\ cli \in Clis
    /\ edits = 0

\* a worker of the pool takes scanline k
StartRow(k) ==
    /\ pc = "render"
    /\ row_state[k] = "todo"
    /\ row_state' = [row_state EXCEPT ![k] = "running"]
    /\ UNCHANGED <<pc, hitVars, traceVars, rowVars, rgbVars, finished, rows,
                   row_idx, imgbuf, written, cli, edits>>

\* the closure of scanline k returns its row, which collect stores at index k
FinishRow(k) ==
    /\ pc = "render"
    /\ row_state[k] = "running"
    /\ \E row \in [1..image_width -> Pixels] :
         rows' = [rows EXCEPT ![k] = row]
    /\ row_state' = [row_state EXCEPT ![k] = "done"]
    /\ finished' = Append(finished, k)
    /\ UNCHANGED <<pc, hitVars, traceVars, rowVars, rgbVars, row_idx, imgbuf,
                   written, cli, edits>>

\* collect returns once every closure has returned; RgbImage::new
Collect ==
    /\ pc = "render"
    /\ \A k \in Scanlines : row_state[k] = "done"
    /\ pc' = "assemble"
    /\ UNCHANGED <<hitVars, traceVars, rowVars, rgbVars, imageVars>>

\* one pass of the loop over rows.into_iter().enumerate(): put_pixel for
\* every pixel of the row
AssembleRow ==
    /\ pc = "assemble"
    /\ row_idx < image_height
    /\ \E y \in {ImageRow(image_height, row_idx)} :
         /\ imgbuf' = [imgbuf EXCEPT ![y] = rows[row_idx]]
         /\ written' = [written EXCEPT
                          ![y] = [x \in 1..image_width |-> @[x] + 1]]
    /\ row_idx' = row_idx + 1
    /\ UNCHANGED <<pc, hitVars, traceVars, rowVars, rgbVars, row_state,
                   finished, rows, cli, edits>>

\* the assembly is over; without --input, or when image::open fails, the
\* image stays as it is
KeepRender ==
    /\ pc = "assemble"
    /\ row_idx = image_height
    /\ pc' = "edits"
    /\ UNCHANGED <<hitVars, traceVars, rowVars, rgbVars, imageVars>>

\* the assembly is over, and the image --input names is opened: every pixel
\* is replaced by that of the resized image or, with --blend, by the mean
OverlayInput ==
    /\ pc = "assemble"
    /\ row_idx = image_height
    /\ cli.input
    /\ \E resized \in ResizedImages :
         imgbuf' = [y \in Scanlines |-> [x \in 1..image_width |->
                      OverlaidPixel(imgbuf[y][x], resized[y][x], cli.blend)]]
    /\ written' = [y \in Scanlines |-> [x \in 1..image_width |->
                     written[y][x] + 1]]
    /\ pc' = "edits"
    /\ UNCHANGED <<hitVars, traceVars, rowVars, rgbVars, row_state, finished,
                   rows, row_idx, cli, edits>>

\* the pixel a --set-pixel argument asks for, or None when it is ignored
ParsedEdit(spec, width, height) ==
    LET parts == [n \in DOMAIN split(spec, <<>>) |->
                    trim(split(spec, <<>>)[n])]
    IN  IF Len(parts) # 5 THEN None
        ELSE LET x == parse_u32(parts[1])
                 y == parse_u32(parts[2])
                 r == parse_u8(parts[3])
                 g == parse_u8(parts[4])
                 b == parse_u8(parts[5])
             IN  IF x.some /\ y.some /\ r.some /\ g.some /\ b.some
                    /\ x.value < width /\ y.value < height
                 THEN [some |-> TRUE, x |-> x.value, y |-> y.value,
                       px |-> <<r.value, g.value, b.value>>]
                 ELSE None

\* one pass of the loop over cli.set_pixel
SetPixel ==
    /\ pc = "edits"
    /\ edits < Len(cli.set_pixel)
    /\ \E edit \in {ParsedEdit(cli.set_pixel[edits + 1], image_width,
                               image_height)} :
         IF edit.some
         THEN /\ imgbuf' = put_pixel(imgbuf, edit.x, edit.y, edit.px)
              /\ written' = Counted(written, edit.x, edit.y)
         ELSE UNCHANGED <<imgbuf, written>>
    /\ edits' = edits + 1
    /\ UNCHANGED <<pc, hitVars, traceVars, rowVars, rgbVars, row_state,
                   finished, rows, row_idx, cli>>

\* imgbuf.save
Save ==
    /\ pc = "edits"
    /\ edits = Len(cli.set_pixel)
    /\ pc' = "done"
    /\ UNCHANGED <<hitVars, traceVars, rowVars, rgbVars, imageVars>>

NextRender ==
    \/ \E k \in Scanlines : StartRow(k)
    \/ \E k \in Scanlines : FinishRow(k)
    \/ Collect
    \/ AssembleRow
    \/ KeepRender
    \/ OverlayInput
    \/ SetPixel
    \/ Save

SpecRender == InitRender /\ [][NextRender]_vars

----------------------------------------------------------------------------
(* Sphere::hit: the claims *)

TheSphere == objects[target]

QuadA == Vec3_length_squared[ray.direction]

QuadHalfB == Vec3_dot[Vec3_sub[ray.origin, TheSphere.center], ray.direction]

QuadC == NumSub[Vec3_length_squared[Vec3_sub[ray.origin, TheSphere.center]],
                NumMul[TheSphere.radius, TheSphere.radius]]

QuadDisc == NumSub[NumMul[QuadHalfB, QuadHalfB], NumMul[QuadA, QuadC]]

\* a*t^2 + 2*half_b*t + c
QuadAt(t) ==
    NumAdd[NumAdd[NumMul[QuadA, NumMul[t, t]],
                  NumMul[F(2), NumMul[QuadHalfB, t]]], QuadC]

\* the two solutions of the quadratic
SmallRoot == NumDiv[NumSub[NumNeg[QuadHalfB], NumSqrt[QuadDisc]], QuadA]

LargeRoot == NumDiv[NumAdd[NumNeg[QuadHalfB], NumSqrt[QuadDisc]], QuadA]

InClosed(x) == NumLeq[t_min, x] /\ NumLeq[x, t_max]

InOpen(x) == NumLess[t_min, x] /\ NumLess[x, t_max]

\* the ray has no direction: a = 0
ZeroDirection == ray.direction = V3(0, 0, 0)

\* C5, as amended: for a ray whose direction is not zero, Sphere::hit
\* returns none when the discriminant is negative; otherwise it returns the
\* smaller root if that lies in the closed interval [t_min, t_max], else the
\* larger root if that lies in [t_min, t_max], else none; a returned t solves
\* the quadratic and lies in [t_min, t_max].  For the zero direction the
\* roots are NaN, no test rejects them, and a record with t = NaN is
\* returned.
C5_RootSelectionClosed ==
    /\ (op = "sphere" /\ ZeroDirection) => result.some /\ IsNaN(result.t)
    /\ (op = "sphere" /\ ~ZeroDirection) =>
      /\ NumLess[QuadDisc, F(0)] => result = None
      /\ ~NumLess[QuadDisc, F(0)] =>
           /\ InClosed(SmallRoot) => result.some /\ NumEq[result.t, SmallRoot]
           /\ ~InClosed(SmallRoot) /\ InClosed(LargeRoot) =>
                result.some /\ NumEq[result.t, LargeRoot]
           /\ ~InClosed(SmallRoot) /\ ~InClosed(LargeRoot) => result = None
      /\ result.some =>
           /\ NumEq[QuadAt(result.t), F(0)]
           /\ InClosed(result.t)
           /\ result.mat = TheSphere.mat

\* C5 as claimed: for every ray, the roots are accepted when they lie in the
\* open interval (t_min, t_max).
C5_RootSelectionOpen ==
    op = "sphere" =>
      /\ NumLess[QuadDisc, F(0)] => result = None
      /\ ~NumLess[QuadDisc, F(0)] =>
           /\ InOpen(SmallRoot) => result.some /\ NumEq[result.t, SmallRoot]
           /\ ~InOpen(SmallRoot) /\ InOpen(LargeRoot) =>
                result.some /\ NumEq[result.t, LargeRoot]
           /\ ~InOpen(SmallRoot) /\ ~InOpen(LargeRoot) => result = None
      /\ result.some => InOpen(result.t)

\* a hit on the boundary: the smaller root is t_min itself and is returned
C5_Witness ==
    /\ op = "sphere"
    /\ ~NumLess[QuadDisc, F(0)]
    /\ NumEq[SmallRoot, t_min]
    /\ NumLess[t_min, LargeRoot] /\ NumLess[LargeRoot, t_max]
    /\ result.some
    /\ NumEq[result.t, t_min]

OutsideAndAway == NumLess[F(0), QuadC] /\ NumLess[F(0), QuadHalfB]

\* C6, as amended: when the ray origin lies outside the sphere and the ray
\* points away from it, Sphere::hit returns none for every interval whose
\* t_min is not negative.
C6_AwayMissesForward ==
    (op = "sphere" /\ OutsideAndAway /\ ~NumLess[t_min, F(0)]) => result = None

\* C6 as claimed: none for whatever interval the caller passes.
C6_AwayMissesAlways ==
    (op = "sphere" /\ OutsideAndAway) => result = None

\* the line of the ray meets the sphere behind the origin, and the interval
\* starts at or after the origin
C6_Witness ==
    /\ op = "sphere"
    /\ OutsideAndAway
    /\ NumLess[F(0), QuadDisc]
    /\ ~NumLess[t_min, F(0)]
    /\ result = None

----------------------------------------------------------------------------
(* HittableList::hit: the claims *)

\* what member i may report when queried alone with the caller's interval
Alone(i) == Sphere_hit(objects[i], ray, t_min, t_max)

\* C1: the scan returns none iff no member reports a hit in [t_min, t_max]
\* when queried alone, and otherwise a record whose t is the minimum of the
\* members' own t; the scenes hold every ordering of the members.
C1_ClosestOfAll ==
    op = "list" =>
      /\ result = None => \A i \in 1..Len(objects) : Alone(i) = {None}
      /\ (\A i \in 1..Len(objects) : None \in Alone(i)) => result = None
      /\ result.some =>
           /\ \E i \in 1..Len(objects) : \A h \in Alone(i) :
                h.some /\ NumEq[result.t, h.t]
           /\ \A i \in 1..Len(objects) : \A h \in Alone(i) :
                h.some => NumLeq[result.t, h.t]

\* two members are hit, and the one scanned first is strictly closer
C1_Witness ==
    /\ op = "list"
    /\ Len(objects) >= 2
    /\ \E h1 \in Alone(1), h2 \in Alone(2) :
         /\ h1.some /\ h2.some
         /\ NumLess[h1.t, h2.t]
         /\ result.some
         /\ NumEq[result.t, h1.t]

----------------------------------------------------------------------------
(* HitRecord::new: the claims *)

\* the sign of the dot product of two vectors of rational numbers, as a
\* real number: sum of v[i] * w[i], brought to one denominator
DotSign(v, w) ==
    LET term(i, j, k) == v[i].a * w[i].a * v[j].q * w[j].q * v[k].q * w[k].q
    IN  Sgn[term(1, 2, 3) + term(2, 1, 3) + term(3, 1, 2)]

\* v is w or, when flipped, -w, component by component
SameOrNegated(v, w, flipped) ==
    \A i \in 1..3 :
      /\ v[i].a = IF flipped THEN -w[i].a ELSE w[i].a
      /\ v[i].q = w[i].q /\ v[i].b = 0 /\ v[i].e = w[i].e

\* C4: front_face is true iff dot(ray.direction, outward_normal) < 0, the
\* stored normal is outward_normal when front_face and its negation
\* otherwise, and dot(ray.direction, normal) <= 0.  Where the dot product is
\* zero as a real number and its terms were rounded, the sign of the f64 dot
\* product, and front_face with it, is as the rounding leaves it.
C4_NormalFacesRay ==
    op = "record" =>
      /\ DotSign(ray.direction, rec_in.outward_normal) < 0 => result.front_face
      /\ DotSign(ray.direction, rec_in.outward_normal) > 0 => ~result.front_face
      /\ (/\ DotSign(ray.direction, rec_in.outward_normal) = 0
          /\ ExactVec(rec_in.outward_normal)) => ~result.front_face
      /\ SameOrNegated(result.normal, rec_in.outward_normal,
                       ~result.front_face)
      /\ DotSign(ray.direction, result.normal) <= 0
      /\ result.p = rec_in.p /\ result.t = rec_in.t

\* the ray leaves through a surface whose normal no f64 holds exactly: the
\* normal is flipped
C4_Witness ==
    /\ op = "record"
    /\ ~ExactVec(rec_in.outward_normal)
    /\ DotSign(ray.direction, rec_in.outward_normal) > 0
    /\ ~result.front_face
    /\ DotSign(ray.direction, result.normal) < 0

----------------------------------------------------------------------------
(* ray_color: the claims *)

\* C2: ray_color terminates.  It makes at most max_depth scene queries; a
\* recursive call is made at depth > 0 only, after one more query, with the
\* depth one less; at depth 0 it returns black without a query; and every
\* call that is entered returns to the renderer.
C2_Terminates ==
    /\ [](queries <= max_depth)
    /\ [][(depth' # depth \/ Len(stack') > Len(stack)) =>
            /\ depth > 0
            /\ depth' = depth - 1
            /\ Len(stack') = Len(stack) + 1
            /\ queries' = queries + 1]_vars
    /\ [][(pc = "call" /\ depth = 0) =>
            /\ pc' = "return"
            /\ color' = Vec3_zero
            /\ queries' = queries]_vars
    /\ (pc = "call") ~> (pc = "done")

\* every bounce hit and scattered again, until the depth ran out
C2_Witness ==
    /\ pc = "done"
    /\ max_depth >= 2
    /\ queries = max_depth
    /\ scatters = max_depth
    /\ terminal = "depth"

\* two colours have the same value in every component
SameColor(c1, c2) == \A i \in 1..3 : NumEq[c1[i], c2[i]]

\* the background of a ray whose direction has integer components:
\* (1-t)*white + t*(0.5, 0.7, 1.0) with t = 0.5*(y/|direction| + 1)
Gradient(r) ==
    LET y == r.direction[2].a
        n == r.direction[1].a * r.direction[1].a + y * y
               + r.direction[3].a * r.direction[3].a
    IN  <<Mk[3 * n, -y, n, 4 * n], Mk[17 * n, -3 * y, n, 20 * n], F(1)>>

\* C7: with no surface in the scene and max_depth >= 1, the scene reports no
\* hit for any ray, and ray_color returns the background gradient of the
\* camera ray after one query, without a recursive call or a scatter.
C7_EmptySceneIsBackground ==
    (objects = <<>> /\ max_depth >= 1) =>
      /\ pc = "call" => WorldHit = {None}
      /\ pc \in {"return", "done"} =>
           /\ SameColor(color, Gradient(ray))
           /\ terminal = "miss"
           /\ queries = 1
           /\ scatters = 0
           /\ depth = max_depth
           /\ stack = <<>> /\ path = <<>>

\* a camera ray that points upwards, rendered in the empty scene
C7_Witness ==
    /\ objects = <<>>
    /\ max_depth >= 1
    /\ pc = "done"
    /\ ray.direction[2].a > 0
    /\ ray.direction[1].a # 0
    /\ SameColor(color, Gradient(ray))

\* the running attenuation product of an explicit loop over the path
RECURSIVE Throughput(_, _)
Throughput(attens, n) ==
    IF n = 0 THEN Color_new(F(1), F(1), F(1))
    ELSE Vec3_mul[Throughput(attens, n - 1), attens[n]]

\* what the path ended with: the background on a miss, black otherwise
TerminalValue ==
    IF terminal = "miss" THEN Gradient(ray) ELSE Vec3_zero

\* the f64 of the running attenuation product of the loop
RECURSIVE ThroughputBits(_, _)
ThroughputBits(attens, n) ==
    IF n = 0 THEN NearestVec[Color_new(F(1), F(1), F(1))]
    ELSE F64Vec_mul[ThroughputBits(attens, n - 1), NearestVec[attens[n]]]

\* the f64 of the terminal value
TerminalBits ==
    IF terminal = "miss" THEN BackgroundBits(ray)
    ELSE [known |-> TRUE, c |-> NearestVec[Vec3_zero]]

\* the f64 the loop returns: its running product times the terminal value
LoopBits == F64Vec_mul[ThroughputBits(path, Len(path)), TerminalBits.c]

\* the f64 of the terminal value times the attenuations n, n - 1, .. 1 of
\* the path, each multiplied in as one f64 operation
RECURSIVE InnermostFirstBits(_, _)
InnermostFirstBits(attens, k) ==
    IF k > Len(attens) THEN TerminalBits.c
    ELSE F64Vec_mul[NearestVec[attens[k]],
                InnermostFirstBits(attens, k + 1)]

\* C10, as amended: the value ray_color returns is the component-wise
\* product of the attenuations of the successful scatters along the path,
\* times the terminal value (the background gradient on a miss, black on an
\* absorption or at depth 0): as a real number it is the product the loop
\* accumulates; as an f64 it is the terminal value multiplied by the
\* attenuations from the last scatter back to the first, which is the f64
\* of the loop when the path has at most one scatter.
C10_RecursionIsProduct ==
    pc = "done" =>
      /\ Len(path) = scatters - (IF terminal = "absorbed" THEN 1 ELSE 0)
      /\ SameColor(color, Vec3_mul[Throughput(path, Len(path)), TerminalValue])
      /\ shade.known = TerminalBits.known
      /\ shade.known => shade.c = InnermostFirstBits(path, 1)
      /\ (shade.known /\ Len(path) <= 1) => shade.c = LoopBits

\* C10 as claimed: the f64 ray_color returns is the f64 the loop returns,
\* for every path.
C10_RecursionIsLoop ==
    (pc = "done" /\ shade.known) => shade.c = LoopBits

\* two bounces and then a miss into a background whose f64 is known: the
\* result is not black, and the loop rounds to another f64
C10_Witness ==
    /\ pc = "done"
    /\ Len(path) >= 2
    /\ terminal = "miss"
    /\ ~SameColor(color, Vec3_zero)
    /\ shade.known
    /\ shade.c # LoopBits

----------------------------------------------------------------------------
(* the parallel render and the assembly: the claims *)

\* the assembly loop is over, and nothing was written after it yet
Assembled == pc = "assemble" /\ row_idx = image_height

\* C3: whatever the image height and the order in which the workers finish
\* their scanlines, the assembly starts only once every row is collected, and
\* when it is over every pixel of every image row y has been written exactly
\* once, with the row computed for scanline image_height - 1 - y.
C3_RowsAssembledFlipped ==
    /\ pc \in {"assemble", "edits", "done"} =>
         \A k \in Scanlines : row_state[k] = "done"
    /\ pc = "render" =>
         \A y \in Scanlines : \A x \in 1..image_width : written[y][x] = 0
    /\ Assembled =>
         \A y \in Scanlines :
           /\ \A x \in 1..image_width : written[y][x] = 1
           /\ imgbuf[y] = rows[image_height - 1 - y]

\* the last scanline finished first, and its row, which differs from the
\* row of scanline 0, is at the top of the assembled image
C3_Witness ==
    /\ Assembled
    /\ image_height >= 2
    /\ finished[1] = image_height - 1
    /\ rows[0] # rows[image_height - 1]
    /\ imgbuf[0] = rows[image_height - 1]
    /\ written[0][1] = 1

----------------------------------------------------------------------------
(* Color::to_rgb8: the claims *)

\* x <= y for two channel values that are rationals
RatLeq(x, y) == x.a * y.q <= y.a * x.q

\* C8: for one sample count, an output channel of to_rgb8 does not decrease
\* when the input channel increases; every output channel is in 0..255; a
\* channel whose mean exceeds 1 gives 255 and a channel of zero gives 0.
C8_ToRgb8MonotoneInRange ==
    pc = "converted" =>
      \A ch \in 1..3 :
        /\ rgb8[ch] \in 0..255
        /\ other_rgb8[ch] \in 0..255
        /\ RatLeq(pixel_color[ch], other_color[ch]) =>
             rgb8[ch] <= other_rgb8[ch]
        /\ RatLeq(other_color[ch], pixel_color[ch]) =>
             other_rgb8[ch] <= rgb8[ch]
        /\ pixel_color[ch].a > samples_per_pixel * pixel_color[ch].q =>
             rgb8[ch] = 255
        /\ pixel_color[ch].a = 0 => rgb8[ch] = 0

\* a colour with a zero channel, a channel of mean above 1 and a channel
\* strictly between, converted below a brighter second colour
C8_Witness ==
    /\ pc = "converted"
    /\ pixel_color[1].a = 0
    /\ pixel_color[2].a > samples_per_pixel * pixel_color[2].q
    /\ rgb8[1] = 0
    /\ rgb8[2] = 255
    /\ 0 < rgb8[3]
    /\ rgb8[3] < other_rgb8[3]
    /\ other_rgb8[3] < 255

----------------------------------------------------------------------------
(* the sampling loop: the claims *)

InUnit(x) == NumLeq[F(0), x] /\ NumLeq[x, F(1)]

\* C9: the coordinates u and v the sampling loop passes to Camera::get_ray
\* both lie in [0, 1], for every width, height, pixel and jitter.
C9_CoordinatesInUnitSquare == InUnit(cam_u) /\ InUnit(cam_v)

====
